---- MODULE Spec2Model ----
(***************************************************************************)
(* State-machine model of the SIIS-SPT compliance server (src/main.py).    *)
(*                                                                         *)
(* Text is modelled as a sequence of one-character strings so that         *)
(* str.lower() and the substring test `a in b` are computed, not assumed.  *)
(* The document store is three collections: users (profiles, read only),   *)
(* recommendations (the catalog) and submissions; `blobs` is the object    *)
(* storage bucket.  `resp` is the HTTP response of the last request.       *)
(*                                                                         *)
(* src/main.py has no endpoint that approves a submission or writes a      *)
(* recommendation.  The approve operation below follows the written design *)
(* (section 4.4: admin only, NotFound, range check, the two writes) so     *)
(* that the review workflow can be explored end to end; its approval       *)
(* timestamp is left out.                                                  *)
(***************************************************************************)
EXTENDS Integers, Sequences, FiniteSets, TLC

VARIABLES recs, subs, blobs, resp

vars == <<recs, subs, blobs, resp>>

\* ------------------------------------------------------------------ bounds
\* Longest institution name drawn for the catalog of the read-path specification.
MaxInstLen == 3
\* Most submissions a behaviour of the workflow specification creates.
MaxSubs == 1

\* ------------------------------------------------------------------ text
InstAlphabet == {"a", "A", "l"}

Strs(n) == UNION {[1..k -> InstAlphabet] : k \in 0..n}

\* str.lower() on one character of the alphabet in use.
LowerChar(c) ==
    CASE c = "A" -> "a"
      [] c = "L" -> "l"
      [] OTHER -> c

\* str.lower()
Lower(s) == [i \in 1..Len(s) |-> LowerChar(s[i])]

\* Python's `needle in hay` on str: a left-to-right scan over start offsets.
RECURSIVE FindAt(_, _, _)
FindAt(needle, hay, i) ==
    IF i + Len(needle) > Len(hay) THEN FALSE
    ELSE IF SubSeq(hay, i + 1, i + Len(needle)) = needle THEN TRUE
    ELSE FindAt(needle, hay, i + 1)

PyIn(needle, hay) == FindAt(needle, hay, 0)

\* dict.get(key, default)
Get(d, k, default) == IF k \in DOMAIN d THEN d[k] ELSE default

\* ------------------------------------------------------------------ users
All == <<"a", "l", "l">>

\* The 'users' collection: profile documents keyed by e-mail.  Profiles are
\* untyped documents, so fields may be absent.
users ==
    ("adm@"    :> [email |-> "adm@", role |-> "admin", inst_slug |-> <<"l", "a">>]) @@
    ("all@"    :> [email |-> "all@", role |-> "user", inst_slug |-> All]) @@
    ("al@"     :> [email |-> "al@", role |-> "user", inst_slug |-> <<"A", "l">>]) @@
    ("la@"     :> [email |-> "la@", role |-> "user", inst_slug |-> <<"l", "a">>]) @@
    ("L@"      :> [email |-> "L@", role |-> "user", inst_slug |-> <<"L">>]) @@
    ("ALL@"    :> [email |-> "ALL@", role |-> "user", inst_slug |-> <<"A", "L", "L">>]) @@
    ("empty@"  :> [email |-> "empty@", role |-> "user", inst_slug |-> <<>>]) @@
    ("noslug@" :> [email |-> "noslug@"]) @@
    ("nomail@" :> [role |-> "user", inst_slug |-> <<"a">>])

\* E-mails a verified token may carry; "ghost@" has no profile document.
Emails == DOMAIN users \cup {"ghost@"}

\* An Authorization header: absent, a non-Bearer scheme, or Bearer <token>,
\* the token being garbage, a valid token without an email claim, or a valid
\* token for an e-mail.
Cred(h, t) == [header |-> h, token |-> t]

NoHeader == Cred("none", "-")

AllCreds ==
    {NoHeader, Cred("basic", "-"), Cred("bearer", "garbage"), Cred("bearer", "noemail")}
        \cup {Cred("bearer", e) : e \in Emails}

\* Line 73: admin if the role is 'admin' or the slug is 'all'.
is_admin(user_data) ==
    \/ Get(user_data, "role", "None") = "admin"
    \/ ("inst_slug" \in DOMAIN user_data /\ user_data.inst_slug = All)

\* An exception on its way out, and the fault (if any) that caused it.
Raised(c, f) == [raised |-> TRUE, code |-> c, fault |-> f, user |-> [is_admin |-> FALSE]]

\* The try block of get_current_user (lines 60-74): what it returns or raises.
AuthTry(cred, fault) ==
    IF cred.token \in {"garbage", "noemail"} THEN Raised(0, "none")
    ELSE IF fault = "users_db" THEN Raised(0, "users_db")
    ELSE IF cred.token \notin DOMAIN users THEN Raised(403, "none")
    ELSE [raised |-> FALSE, code |-> 200, fault |-> "none",
          user |-> ("is_admin" :> is_admin(users[cred.token])) @@ users[cred.token]]

\* get_current_user: the header test, then the try block under
\* `except Exception`, which turns whatever was raised into a 401.
get_current_user(cred, fault) ==
    IF cred.header # "bearer" THEN Raised(401, "none")
    ELSE LET t == AuthTry(cred, fault)
         IN  IF t.raised THEN Raised(401, t.fault) ELSE t

\* ------------------------------------------------------------------ catalog
CatalogOrder == <<"R1", "R2">>

CatalogIds == {CatalogOrder[i] : i \in 1..Len(CatalogOrder)}

\* Derived label of a progress value.
StatusOf(p) ==
    IF p = 0 THEN "Pending" ELSE IF p = 100 THEN "Completed" ELSE "In Progress"

Rec(id, inst, p) ==
    [id |-> id, institution |-> inst, progress |-> p, status |-> StatusOf(p)]

all_recs == {recs[id] : id \in DOMAIN recs}

\* The outcome of one request: the endpoint, the credential and the arguments
\* it was called with, the infrastructure fault it ran into ("none" if none
\* did), the HTTP status and the payload returned.
Response(op, cred, args, fault, code, body) ==
    [op |-> op, cred |-> cred, args |-> args, fault |-> fault, code |-> code,
     body |-> body]

\* ------------------------------------------------------------------ reads
auth_me(cred, fault) ==
    LET a == get_current_user(cred, fault)
    IN  /\ resp' = IF a.raised THEN Response("me", cred, <<>>, a.fault, a.code, {})
                   ELSE Response("me", cred, <<>>, "none", 200,
                            {[email |-> Get(a.user, "email", "None"),
                              institution |-> Get(a.user, "institution", "None"),
                              is_admin |-> a.user.is_admin,
                              role |-> Get(a.user, "role", "None")]})
        /\ UNCHANGED <<recs, subs, blobs>>

\* The tenant filter with the institution name compared as stored, not lower-cased.
visible_raw_institution(user, rs) ==
    IF user.is_admin THEN rs
    ELSE LET slug == Lower(Get(user, "inst_slug", <<>>))
         IN  {r \in rs : PyIn(slug, Get(r, "institution", <<>>))}

\* Lines 98-102: the tenant filter.
visible(user, rs) ==
    IF user.is_admin THEN rs
    ELSE LET slug == Lower(Get(user, "inst_slug", <<>>))
         IN  {r \in rs : PyIn(slug, Lower(Get(r, "institution", <<>>)))}

list_recommendations(cred, fault) ==
    LET a == get_current_user(cred, fault)
    IN  /\ resp' = IF a.raised THEN Response("list", cred, <<>>, a.fault, a.code, {})
                   ELSE IF fault = "data_db" THEN Response("list", cred, <<>>, fault, 500, {})
                   ELSE Response("list", cred, <<>>, "none", 200, visible(a.user, all_recs))
        /\ UNCHANGED <<recs, subs, blobs>>

\* Lines 166-174: the vertical position and page of the n-th entry drawn.
RECURSIVE Layout(_)
Layout(n) ==
    IF n = 1 THEN [page |-> 1, y |-> 700]
    ELSE LET prev == Layout(n - 1)
             y == prev.y - 45
         IN  IF y < 100 THEN [page |-> prev.page + 1, y |-> 750]
             ELSE [page |-> prev.page, y |-> y]

\* One entry per document of the recommendations collection, in stream order.
ReportEntries ==
    {[id |-> recs[CatalogOrder[n]].id,
      institution |-> recs[CatalogOrder[n]].institution,
      progress |-> Get(recs[CatalogOrder[n]], "progress", 0),
      page |-> Layout(n).page,
      y |-> Layout(n).y] : n \in 1..Len(CatalogOrder)}

generate_pdf(cred, fault) ==
    LET a == get_current_user(cred, fault)
    IN  /\ resp' = IF a.raised THEN Response("report", cred, <<>>, a.fault, a.code, {})
                   ELSE IF fault = "data_db" THEN Response("report", cred, <<>>, fault, 500, {})
                   ELSE Response("report", cred, <<>>, "none", 200, ReportEntries)
        /\ UNCHANGED <<recs, subs, blobs>>

analyze_barrier(cred, fault) ==
    LET a == get_current_user(cred, fault)
    IN  /\ resp' = IF a.raised THEN Response("analyze", cred, <<>>, a.fault, a.code, {})
                   ELSE IF fault = "ai" THEN Response("analyze", cred, <<>>, fault, 500, {})
                   ELSE Response("analyze", cred, <<>>, "none", 200, {[analysis |-> "text"]})
        /\ UNCHANGED <<recs, subs, blobs>>

\* ------------------------------------------------------------------ evidence intake
\* recommendation_id values submitted: one of the catalog and one unknown.
RecommendationIds == {"R1", "R9"}

Filenames == {"f.pdf"}

Descriptions == {"logro"}

\* A submission document born already approved.
NewSubmission_approved(n, rid, email, desc, url) ==
    [id |-> n, recommendation_id |-> rid, submitted_by |-> email,
     description |-> desc, file_url |-> url, status |-> "APPROVED",
     timestamp |-> n]

\* The document written by sub_ref.set (lines 139-147); the generated id and
\* the server timestamp are the creation ordinal.
NewSubmission(n, rid, email, desc, url) ==
    [id |-> n, recommendation_id |-> rid, submitted_by |-> email,
     description |-> desc, file_url |-> url, status |-> "PENDIENTE",
     timestamp |-> n]

\* Evidence intake that also flags the parent recommendation as in progress.
StoreSubmission_flagging(rid, email, desc, url) ==
    /\ subs' = Append(subs, NewSubmission(Len(subs) + 1, rid, email, desc, url))
    /\ recs' = IF rid \in DOMAIN recs
                THEN [recs EXCEPT ![rid].status = "In Progress"]
                ELSE recs

\* sub_ref.set: one new document in the submissions collection.
StoreSubmission(rid, email, desc, url) ==
    /\ subs' = Append(subs, NewSubmission(Len(subs) + 1, rid, email, desc, url))
    /\ UNCHANGED recs

upload_evidence(cred, fault, rid, desc, fname) ==
    LET a == get_current_user(cred, fault)
        path == <<"evidence", rid, fname>>
    IN  /\ Len(subs) < MaxSubs
        /\ IF a.raised
           THEN /\ resp' = Response("upload", cred, <<rid, desc, fname>>, a.fault, a.code, {})
                /\ UNCHANGED <<recs, subs, blobs>>
           ELSE IF fault = "storage"
           THEN /\ resp' = Response("upload", cred, <<rid, desc, fname>>, fault, 500, {})
                /\ UNCHANGED <<recs, subs, blobs>>
           ELSE IF fault = "data_db" \/ "email" \notin DOMAIN a.user
           THEN /\ blobs' = blobs \cup {path}
                /\ resp' = Response("upload", cred, <<rid, desc, fname>>,
                                    IF fault = "data_db" THEN fault ELSE "none", 500, {})
                /\ UNCHANGED <<recs, subs>>
           ELSE /\ blobs' = blobs \cup {path}
                /\ StoreSubmission(rid, a.user.email, desc, path)
                /\ resp' = Response("upload", cred, <<rid, desc, fname>>, "none", 200,
                                    {[message |-> "Evidencia subida correctamente"]})

\* ------------------------------------------------------------------ review
pending_docs == {subs[i] : i \in {j \in 1..Len(subs) : subs[j].status = "PENDIENTE"}}

list_pending(cred, fault) ==
    LET a == get_current_user(cred, fault)
    IN  /\ resp' = IF a.raised THEN Response("pending", cred, <<>>, a.fault, a.code, {})
                   ELSE IF ~a.user.is_admin THEN Response("pending", cred, <<>>, "none", 403, {})
                   ELSE IF fault = "data_db" THEN Response("pending", cred, <<>>, fault, 500, {})
                   ELSE Response("pending", cred, <<>>, "none", 200, pending_docs)
        /\ UNCHANGED <<recs, subs, blobs>>

\* approved_progress values tried: both ends, a middle value, and one past each end.
ProgressInputs == {-1, 0, 60, 100, 101}

SubmissionIds == 1..(MaxSubs + 1)

\* approve without a range check.
ValidProgress_any(p) == p \in Int

\* The progress values approve accepts.
ValidProgress(p) == p \in 0..100

\* approve writing the progress but leaving the derived status stale.
ApproveWrites_stale_status(sid, p) ==
    LET rid == subs[sid].recommendation_id
    IN  /\ subs' = [subs EXCEPT ![sid].status = "APPROVED"]
        /\ recs' = [recs EXCEPT ![rid].progress = p]

\* The two writes of approve: the submission, then its parent recommendation.
ApproveWrites(sid, p) ==
    LET rid == subs[sid].recommendation_id
    IN  /\ subs' = [subs EXCEPT ![sid].status = "APPROVED"]
        /\ recs' = [recs EXCEPT ![rid].progress = p, ![rid].status = StatusOf(p)]

\* approve(submission_id, approved_progress, principal) of the written design.
approve(cred, sid, p) ==
    LET a == get_current_user(cred, "none")
        fail(code) == /\ resp' = Response("approve", cred, <<sid, p>>, "none", code, {})
                      /\ UNCHANGED <<recs, subs, blobs>>
    IN  IF a.raised THEN fail(a.code)
        ELSE IF ~a.user.is_admin THEN fail(403)
        ELSE IF sid \notin 1..Len(subs) THEN fail(404)
        ELSE IF ~ValidProgress(p) THEN fail(422)
        ELSE IF subs[sid].recommendation_id \notin DOMAIN recs THEN fail(404)
        ELSE /\ ApproveWrites(sid, p)
             /\ resp' = Response("approve", cred, <<sid, p>>, "none", 200, {[message |-> "approved"]})
             /\ UNCHANGED blobs

\* ------------------------------------------------------------------ specifications
NoResponse == Response("none", NoHeader, <<>>, "none", 0, {})

SecondInstitutions == {<<"l", "a">>, <<"A">>}

\* Read paths over a catalog whose institution names are drawn.
InitReads ==
    /\ recs \in {[id \in CatalogIds |-> Rec(id, IF id = "R1" THEN i1 ELSE i2, 0)] :
                    i1 \in Strs(MaxInstLen), i2 \in SecondInstitutions}
    /\ subs = <<>>
    /\ blobs = {}
    /\ resp = NoResponse

\* One infrastructure fault at most per request: the profile lookup, the data
\* collections, the bucket or the generation service is down.
AuthFaults == {"none", "users_db"}

DataFaults == AuthFaults \cup {"data_db"}

NextReads ==
    \E cred \in AllCreds :
        \/ \E fault \in AuthFaults : auth_me(cred, fault)
        \/ \E fault \in DataFaults : list_recommendations(cred, fault)
        \/ \E fault \in DataFaults : generate_pdf(cred, fault)
        \/ \E fault \in AuthFaults \cup {"ai"} : analyze_barrier(cred, fault)

SpecReads == InitReads /\ [][NextReads]_vars

\* The whole workflow over a seeded catalog.
MainCreds ==
    {NoHeader, Cred("bearer", "adm@"), Cred("bearer", "al@")}

Init ==
    /\ recs = [id \in CatalogIds |->
                  Rec(id, IF id = "R1" THEN <<"A", "l">> ELSE <<"l", "a">>, 0)]
    /\ subs = <<>>
    /\ blobs = {}
    /\ resp = NoResponse

Next ==
    \E cred \in MainCreds :
        \/ auth_me(cred, "none")
        \/ list_recommendations(cred, "none")
        \/ generate_pdf(cred, "none")
        \/ \E fault \in {"none", "ai"} : analyze_barrier(cred, fault)
        \/ \E fault \in DataFaults \cup {"storage"}, rid \in RecommendationIds,
              desc \in Descriptions, fname \in Filenames :
              upload_evidence(cred, fault, rid, desc, fname)
        \/ \E fault \in {"none", "data_db"} : list_pending(cred, fault)
        \/ \E sid \in SubmissionIds, p \in ProgressInputs : approve(cred, sid, p)

Spec == Init /\ [][Next]_vars

\* ------------------------------------------------------------------ properties
\* `resp` is the response of the last request and every request sets it, so
\* in every state the stores are exactly as that request left them.

\* Two characters that differ at most in case.
SameLetter(c, d) == c = d \/ {c, d} \in {{"a", "A"}, {"l", "L"}}

\* inst has a run of Len(slug) characters equal to slug up to case.
ContainsCI(inst, slug) ==
    \E i \in 0..(Len(inst) - Len(slug)) :
        \A k \in 1..Len(slug) : SameLetter(inst[i + k], slug[k])

\* The last request came with a valid token of a principal that has a profile.
Resolved == resp.cred.header = "bearer" /\ resp.cred.token \in DOMAIN users

Principal == users[resp.cred.token]

PrincipalSlug == IF "inst_slug" \in DOMAIN Principal THEN Principal.inst_slug ELSE <<>>

PrincipalIsAdmin ==
    \/ ("role" \in DOMAIN Principal /\ Principal.role = "admin")
    \/ PrincipalSlug = <<"a", "l", "l">>

\* C1: a successful listing returns to a non-admin exactly the recommendations
\* whose institution contains the principal's slug up to case, and to an admin
\* (role admin, or slug "all") the whole recommendation set.
C1_ListIsTenantFilter ==
    (resp.op = "list" /\ resp.code = 200) =>
        /\ Resolved
        /\ IF PrincipalIsAdmin
           THEN resp.body = all_recs
           ELSE resp.body = {r \in all_recs : ContainsCI(r.institution, PrincipalSlug)}

\* A non-admin with a mixed-case slug was given one recommendation and denied
\* the other, the match resting on the case folding.
C1_Witness ==
    /\ resp.op = "list" /\ resp.code = 200 /\ Resolved
    /\ ~PrincipalIsAdmin /\ PrincipalSlug # <<>>
    /\ resp.body # {} /\ resp.body # all_recs
    /\ \E r \in resp.body : ~PyIn(PrincipalSlug, r.institution)

\* C2: a non-admin whose slug is empty or missing is listed no recommendation.
C2_EmptySlugSeesNothing ==
    (resp.op = "list" /\ resp.code = 200 /\ Resolved
        /\ ~PrincipalIsAdmin /\ PrincipalSlug = <<>>) => resp.body = {}

\* C3: the report generated for a non-admin holds entries only for
\* recommendations whose institution contains the principal's slug.
C3_ReportIsTenantFiltered ==
    (resp.op = "report" /\ resp.code = 200 /\ Resolved /\ ~PrincipalIsAdmin) =>
        \A e \in resp.body : ContainsCI(e.institution, PrincipalSlug)

\* C4: evidence for an unknown recommendation id fails with NotFound, and
\* every stored submission references an existing recommendation.
C4_SubmissionsReferenceRecommendations ==
    /\ (resp.op = "upload" /\ Resolved /\ resp.fault = "none"
            /\ resp.args[1] \notin DOMAIN recs) => resp.code = 404
    /\ \A i \in 1..Len(subs) : subs[i].recommendation_id \in DOMAIN recs

\* C5: after a successful approve(sid, p) the submission is APPROVED and its
\* parent recommendation reads progress p with the status of p:
\* 0 Pending, 1..99 In Progress, 100 Completed.
C5_ApproveThenRead ==
    (resp.op = "approve" /\ resp.code = 200) =>
        LET sid == resp.args[1]
            p == resp.args[2]
            parent == recs[subs[sid].recommendation_id]
        IN  /\ subs[sid].status = "APPROVED"
            /\ parent.progress = p
            /\ (p = 0 => parent.status = "Pending")
            /\ (p \in 1..99 => parent.status = "In Progress")
            /\ (p = 100 => parent.status = "Completed")

\* An admin approved a submission at 60 percent.
C5_Witness ==
    /\ resp.op = "approve" /\ resp.code = 200 /\ resp.args[2] = 60
    /\ recs[subs[resp.args[1]].recommendation_id].status = "In Progress"

\* C6: listPending is refused with Forbidden to a non-admin, and returns to an
\* admin exactly the pending submissions, each carrying its parent
\* recommendation's display id and current progress.
C6_ListPendingEnriched ==
    resp.op = "pending" =>
        /\ (Resolved /\ ~PrincipalIsAdmin) => (resp.code # 200 /\ resp.body = {})
        /\ (Resolved /\ ~PrincipalIsAdmin /\ resp.fault = "none") => resp.code = 403
        /\ resp.code = 200 =>
              /\ Resolved /\ PrincipalIsAdmin
              /\ {d.id : d \in resp.body}
                    = {i \in 1..Len(subs) : subs[i].status = "PENDIENTE"}
              /\ \A d \in resp.body :
                    d.recommendation_id \in DOMAIN recs =>
                        /\ "progress" \in DOMAIN d
                        /\ d.progress = recs[d.recommendation_id].progress

\* C7: a missing or invalid credential is answered 401, a valid credential
\* without a profile 403, and neither reaches the endpoint's body.
C7_AuthErrorKinds ==
    resp.op # "none" =>
        /\ (resp.cred.header # "bearer" \/ resp.cred.token = "garbage")
              => (resp.code = 401 /\ resp.body = {})
        /\ (resp.cred.header = "bearer" /\ resp.cred.token = "ghost@")
              => (resp.code \in {401, 403} /\ resp.body = {})
        /\ (resp.cred.header = "bearer" /\ resp.cred.token = "ghost@"
                /\ resp.fault = "none") => resp.code = 403

\* C8: every recommendation's progress stays in 0..100; approve with a
\* progress outside 0..100 is rejected (ValidationError for an admin and an
\* existing submission) leaving submissions and recommendations as they were;
\* and only a successful approve writes progress.
C8_ProgressInRange ==
    /\ [](\A id \in DOMAIN recs : recs[id].progress \in 0..100)
    /\ [][(resp'.op = "approve" /\ resp'.args[2] \notin 0..100) =>
             /\ resp'.code # 200
             /\ UNCHANGED <<recs, subs>>
             /\ (resp'.cred = Cred("bearer", "adm@") /\ resp'.args[1] \in 1..Len(subs))
                   => resp'.code = 422]_vars
    /\ [][(\E id \in DOMAIN recs : recs'[id].progress # recs[id].progress) =>
             (resp'.op = "approve" /\ resp'.code = 200)]_vars

\* An admin's approve at 101 percent of an existing submission was rejected.
C8_Witness ==
    /\ resp.op = "approve" /\ resp.args[2] = 101 /\ resp.code = 422
    /\ Len(subs) >= 1 /\ subs[resp.args[1]].status = "PENDIENTE"

\* C9: a submission is created only by evidence intake, pending and with the
\* submitter's e-mail; afterwards only its status changes, only from pending
\* to APPROVED and only by a successful approve; none is ever removed.
C9_SubmissionLifecycle ==
    [][/\ Len(subs') >= Len(subs)
       /\ Len(subs') <= Len(subs) + 1
       /\ Len(subs') = Len(subs) + 1 =>
             /\ resp'.op = "upload" /\ resp'.code = 200
             /\ subs'[Len(subs')].status = "PENDIENTE"
             /\ subs'[Len(subs')].submitted_by = resp'.cred.token
       /\ \A i \in 1..Len(subs) :
             /\ subs'[i] = [subs[i] EXCEPT !.status = subs'[i].status]
             /\ subs'[i].status # subs[i].status =>
                   /\ subs[i].status = "PENDIENTE" /\ subs'[i].status = "APPROVED"
                   /\ resp'.op = "approve" /\ resp'.code = 200]_vars

\* A submission was taken in and later approved.
C9_Witness ==
    \E i \in 1..Len(subs) : subs[i].status = "APPROVED" /\ subs[i].submitted_by = "al@"

\* C10: only approve changes the recommendation store; evidence intake, the
\* listings, the AI analysis and the report leave it as it was, failed or not,
\* and the read-only ones leave the submission store as it was too.
C10_OnlyApproveWritesRecommendations ==
    [][/\ resp'.op # "approve" => recs' = recs
       /\ resp'.op \in {"me", "list", "pending", "analyze", "report"} => subs' = subs]_vars

\* Evidence was accepted for a seeded recommendation, which still reads 0.
C10_Witness ==
    /\ resp.op = "upload" /\ resp.code = 200
    /\ Len(subs) = 1 /\ subs[1].recommendation_id = "R1"
    /\ recs["R1"].progress = 0 /\ recs["R1"].status = "Pending"

====
